---- MODULE Spec2Model ----
(***************************************************************************)
(* DTree (src/src/core/dtree.ts): a tree whose nodes carry two order keys, *)
(* q1 (pre-order, assigned at insertion) and q2 (post-order, assigned by   *)
(* recalculateQ2), a token cross-reference (TokenXref) and the queries     *)
(* built on them (contains, findNCD, findNCDMultiple, searchAND).          *)
(*                                                                         *)
(* A node id `node_k` is modelled by the integer k; NULL (0) stands for    *)
(* null / undefined.  A tree is a record; the operations are operators     *)
(* from a tree to the tree the operation leaves, and the actions apply     *)
(* them to the variable `tree`.                                            *)
(***************************************************************************)
EXTENDS Integers, Sequences, FiniteSets, TLC

VARIABLES tree, dirty, inOrder, last, properties

vars == <<tree, dirty, inOrder, last, properties>>

(* ---------------------------------------------------------------- bounds *)

\* Number of nodes one tree ever creates (the root included).
MaxNodes == 5

\* The same, where every list of nodes that holds the root is a query.
MaxListNodes == 4

\* The same, where content is indexed.
MaxXrefNodes == 3

\* Number of (token, node) occurrences the cross-reference holds.
MaxOccurrences == 3

\* The same two bounds, where every token list is a searchOR query.
MaxSearchNodes == 2

MaxSearchOccurrences == 3

\* Nodes of a tree whose removed nodes stay held, and occurrences in its
\* cross-reference.
MaxHeldNodes == 3
MaxHeldOccurrences == 2

\* The same two bounds, where the tree is saved and restored.
MaxRestoreNodes == 3

MaxRestoreOccurrences == 2

\* The same two bounds, where the queries are calls.
MaxQueryNodes == 3

MaxQueryOccurrences == 1

\* Length of the node lists given to findNCDMultiple.
MaxListLen == 3

(* ------------------------------------------------------------- constants *)

NULL == 0

INITIAL_SPACING == 1000

(***************************************************************************)
(* q2 is a JavaScript number (an IEEE-754 double).  The values the tree    *)
(* computes are k * 1000 and Number.MAX_SAFE_INTEGER + k * 1000, so a      *)
(* number is modelled as <<h, l>>, standing for h * 2^53 + l, with h in    *)
(* {0, 1}.  Above 2^53 doubles are two apart: an odd sum is rounded to the *)
(* neighbour with the even mantissa (l divisible by 4).                    *)
(***************************************************************************)
MAX_SAFE_INTEGER == <<1, -1>>

Num(k) == <<0, k>>

NumLess(x, y) == x[1] < y[1] \/ (x[1] = y[1] /\ x[2] < y[2])

NumPlus(x, k) ==
    LET s == x[2] + k
    IN  IF x[1] = 0 \/ s < 0 \/ s % 2 = 0 THEN <<x[1], s>>
        ELSE IF (s + 1) % 4 = 0 THEN <<x[1], s + 1>> ELSE <<x[1], s - 1>>

(* ------------------------------------------------------------- sequences *)

IndexOf(s, x) ==
    IF \E i \in 1..Len(s) : s[i] = x
    THEN (CHOOSE i \in 1..Len(s) : s[i] = x /\ \A j \in 1..(i - 1) : s[j] # x) - 1
    ELSE -1

\* Array.prototype.splice(start, 0, x) for start in 0..Len(s)
InsertAt(s, start, x) == SubSeq(s, 1, start) \o <<x>> \o SubSeq(s, start + 1, Len(s))

\* Array.prototype.splice(start, 1); a negative start counts from the end
RemoveAt(s, start) ==
    LET from == IF start < 0 THEN (IF Len(s) + start < 0 THEN 0 ELSE Len(s) + start)
                ELSE start
    IN  IF from >= Len(s) THEN s
        ELSE SubSeq(s, 1, from) \o SubSeq(s, from + 2, Len(s))

Range(s) == {s[i] : i \in 1..Len(s)}

\* a Set keeps insertion order and ignores the insertion of a member
SetAdd(s, x) == IF x \in Range(s) THEN s ELSE Append(s, x)

SetDelete(s, x) == SelectSeq(s, LAMBDA y : y # x)

(* ------------------------------------------------------------- DTreeNode *)

\* new Map()
EmptyIndex == [tok \in {} |-> <<>>]

NoContent == <<"undefined">>

NewNode(id, q1, q2, parent) ==
    [id |-> id, q1 |-> q1, q2 |-> q2, content |-> NoContent, parent |-> parent,
     children |-> <<>>, prevSibling |-> NULL, nextSibling |-> NULL]

\* contains with the close coordinates compared the wrong way round
NodeContains_Q2Reversed(a, b) == a.q1 < b.q1 /\ NumLess(a.q2, b.q2)

\* contains with the two comparisons not strict
NodeContains_NonStrict(a, b) == a.q1 <= b.q1 /\ ~NumLess(a.q2, b.q2)

\* a.contains(b), on node records
NodeContains(a, b) == a.q1 < b.q1 /\ NumLess(b.q2, a.q2)

RECURSIVE GetAncestryPath(_, _)
GetAncestryPath(t, n) ==
    IF t.nodes[n].parent = NULL THEN <<n>>
    ELSE <<n>> \o GetAncestryPath(t, t.nodes[n].parent)

IsLeaf(t, n) == Len(t.nodes[n].children) = 0

IsRoot(t, n) == t.nodes[n].parent = NULL

RECURSIVE GetSubtree(_, _)
RECURSIVE SubtreesOf(_, _, _)
SubtreesOf(t, kids, i) ==
    IF i > Len(kids) THEN <<>>
    ELSE GetSubtree(t, kids[i]) \o SubtreesOf(t, kids, i + 1)

GetSubtree(t, n) == <<n>> \o SubtreesOf(t, t.nodes[n].children, 1)

(* ----------------------------------------------------------------- DTree *)

\* new DTree(): the root is node_1 with q1 = 0 and q2 = MAX_SAFE_INTEGER
NewTree ==
    [nodes |-> (1 :> NewNode(1, 0, MAX_SAFE_INTEGER, NULL)),
     root |-> 1,
     nodeMap |-> {1},
     index |-> EmptyIndex,
     nextId |-> 2,
     q1Counter |-> 0]

CalculateChildIndices(t, parent, afterSibling) ==
    LET q1 == t.q1Counter + INITIAL_SPACING
        siblings == t.nodes[parent].children
    IN  [q1 |-> q1,
         q2 |-> IF Len(siblings) = 0 \/ afterSibling = NULL
                THEN NumPlus(t.nodes[parent].q2, INITIAL_SPACING)
                ELSE NumPlus(t.nodes[afterSibling].q2, INITIAL_SPACING)]

\* the traversal of recalculateQ2: st = [nodes, counter]
RECURSIVE Traverse(_, _)
RECURSIVE TraverseChildren(_, _, _)
TraverseChildren(st, kids, i) ==
    IF i > Len(kids) THEN st
    ELSE TraverseChildren(Traverse(st, kids[i]), kids, i + 1)

\* recalculateQ2 numbering a node before its children
Traverse_PreOrder(st, n) ==
    LET counter == st.counter + INITIAL_SPACING
    IN  TraverseChildren([nodes |-> [st.nodes EXCEPT ![n].q2 = Num(counter)],
                          counter |-> counter],
                         st.nodes[n].children, 1)

Traverse(st, n) ==
    LET done == TraverseChildren(st, st.nodes[n].children, 1)
        counter == done.counter + INITIAL_SPACING
    IN  [nodes |-> [done.nodes EXCEPT ![n].q2 = Num(counter)], counter |-> counter]

RecalculateQ2(t) ==
    [t EXCEPT !.nodes = Traverse([nodes |-> t.nodes, counter |-> 0], t.root).nodes]

AddNode(t, parent, afterSibling) ==
    LET ix == CalculateChildIndices(t, parent, afterSibling)
        id == t.nextId
        kids == t.nodes[parent].children
        node == NewNode(id, ix.q1, ix.q2, parent)
        after == IF afterSibling = NULL THEN NULL ELSE t.nodes[afterSibling].nextSibling
        linked ==
            IF afterSibling # NULL
            THEN [node EXCEPT !.prevSibling = afterSibling, !.nextSibling = after]
            ELSE IF Len(kids) > 0 THEN [node EXCEPT !.nextSibling = kids[1]]
            ELSE node
        withNode == (id :> linked) @@ t.nodes
        relinked ==
            IF afterSibling # NULL
            THEN LET n1 == IF after # NULL
                           THEN [withNode EXCEPT ![after].prevSibling = id]
                           ELSE withNode
                     n2 == [n1 EXCEPT ![afterSibling].nextSibling = id]
                 IN  [n2 EXCEPT ![parent].children =
                            InsertAt(n2[parent].children, IndexOf(kids, afterSibling) + 1, id)]
            ELSE LET n1 == IF Len(kids) > 0
                           THEN [withNode EXCEPT ![kids[1]].prevSibling = id]
                           ELSE withNode
                 IN  [n1 EXCEPT ![parent].children = <<id>> \o kids]
    IN  [t EXCEPT !.nodes = relinked,
                  !.nodeMap = @ \cup {id},
                  !.nextId = id + 1,
                  !.q1Counter = ix.q1]

LastChild(t, parent) ==
    LET kids == t.nodes[parent].children
    IN  IF Len(kids) = 0 THEN NULL ELSE kids[Len(kids)]

\* appendChild linking the new node as the first child
AppendChild_First(t, parent) == AddNode(t, parent, NULL)

AppendChild(t, parent) == AddNode(t, parent, LastChild(t, parent))

GetNode(t, id) == IF id \in t.nodeMap THEN id ELSE NULL

\* TokenXref.removeNode: delete the node from every entry
XrefRemoveNode(index, n) == [tok \in DOMAIN index |-> SetDelete(index[tok], n)]

RECURSIVE PurgeAll(_, _, _)
PurgeAll(index, ns, i) ==
    IF i > Len(ns) THEN index
    ELSE PurgeAll(XrefRemoveNode(index, ns[i]), ns, i + 1)

\* removeNode without its root check: the purge runs, then parent is null
RemoveNode_NoRootCheck(t, n) ==
    LET subtree == GetSubtree(t, n)
        purged == [t EXCEPT !.nodeMap = @ \ Range(subtree),
                            !.index = PurgeAll(@, subtree, 1)]
    IN  IF IsRoot(t, n) THEN [t |-> purged, error |-> "TypeError"]
        ELSE [t |-> purged, error |-> "none"]

\* removeNode purging the node alone, not its subtree
RemoveNode_OnlyNode(t, n) ==
    IF IsRoot(t, n) THEN [t |-> t, error |-> "RootRemovalForbidden"]
    ELSE
    LET parent == t.nodes[n].parent
        prev == t.nodes[n].prevSibling
        next == t.nodes[n].nextSibling
        n0 == [t.nodes EXCEPT ![parent].children =
                    RemoveAt(@, IndexOf(t.nodes[parent].children, n))]
        n1 == IF prev # NULL THEN [n0 EXCEPT ![prev].nextSibling = next] ELSE n0
        n2 == IF next # NULL THEN [n1 EXCEPT ![next].prevSibling = prev] ELSE n1
    IN  [t |-> [t EXCEPT !.nodes = n2,
                         !.nodeMap = @ \ {n},
                         !.index = XrefRemoveNode(@, n)],
         error |-> "none"]

\* removeNode leaving the nextSibling of the node before the removed one as it was
RemoveNode_KeepsNextLink(t, n) ==
    IF IsRoot(t, n) THEN [t |-> t, error |-> "RootRemovalForbidden"]
    ELSE
    LET subtree == GetSubtree(t, n)
        parent == t.nodes[n].parent
        prev == t.nodes[n].prevSibling
        next == t.nodes[n].nextSibling
        n0 == [t.nodes EXCEPT ![parent].children =
                    RemoveAt(@, IndexOf(t.nodes[parent].children, n))]
        n2 == IF next # NULL THEN [n0 EXCEPT ![next].prevSibling = prev] ELSE n0
    IN  [t |-> [t EXCEPT !.nodes = n2,
                         !.nodeMap = @ \ Range(subtree),
                         !.index = PurgeAll(@, subtree, 1)],
         error |-> "none"]

\* removeNode: [t |-> the tree it leaves, error |-> what it throws]
RemoveNode(t, n) ==
    IF IsRoot(t, n) THEN [t |-> t, error |-> "RootRemovalForbidden"]
    ELSE
    LET subtree == GetSubtree(t, n)
        parent == t.nodes[n].parent
        prev == t.nodes[n].prevSibling
        next == t.nodes[n].nextSibling
        n0 == [t.nodes EXCEPT ![parent].children =
                    RemoveAt(@, IndexOf(t.nodes[parent].children, n))]
        n1 == IF prev # NULL THEN [n0 EXCEPT ![prev].nextSibling = next] ELSE n0
        n2 == IF next # NULL THEN [n1 EXCEPT ![next].prevSibling = prev] ELSE n1
    IN  [t |-> [t EXCEPT !.nodes = n2,
                         !.nodeMap = @ \ Range(subtree),
                         !.index = PurgeAll(@, subtree, 1)],
         error |-> "none"]

(* ------------------------------------------------------------------ text *)

(***************************************************************************)
(* A string is a sequence of one-character strings.  The alphabet is the   *)
(* characters of Texts and QueryTokens below.                              *)
(***************************************************************************)
LowerChar(c) == IF c = "A" THEN "a" ELSE IF c = "B" THEN "b" ELSE c

ToLowerCase(s) == [i \in 1..Len(s) |-> LowerChar(s[i])]

\* \s
IsSpace(c) == c = " "

\* \w
IsWord(c) == c \in {"a", "b", "A", "B", "p", "r", "o", "t", "_"}

RECURSIVE Trim(_)
Trim(s) ==
    IF Len(s) = 0 THEN s
    ELSE IF IsSpace(s[1]) THEN Trim(Tail(s))
    ELSE IF IsSpace(s[Len(s)]) THEN Trim(SubSeq(s, 1, Len(s) - 1))
    ELSE s

\* s.split(/\s+/): the pieces between the runs of white space, the empty
\* pieces at the two ends included
RECURSIVE SplitFrom(_, _, _, _)
SplitFrom(s, i, cur, out) ==
    IF i > Len(s) THEN Append(out, cur)
    ELSE IF IsSpace(s[i])
         THEN IF i > 1 /\ IsSpace(s[i - 1]) THEN SplitFrom(s, i + 1, cur, out)
              ELSE SplitFrom(s, i + 1, <<>>, Append(out, cur))
         ELSE SplitFrom(s, i + 1, Append(cur, s[i]), out)

Split(s) == SplitFrom(s, 1, <<>>, <<>>)

\* t.replace(/[^\w]/g, '')
StripNonWord(s) == SelectSeq(s, IsWord)

\* the tokens indexContent registers, in order, repeats included
Tokenize(content) ==
    LET pieces == Split(ToLowerCase(content))
        stripped == [i \in 1..Len(pieces) |-> StripNonWord(pieces[i])]
    IN  SelectSeq(stripped, LAMBDA tok : Len(tok) > 0)

(* ------------------------------------------------------------- TokenXref *)

XrefAdd(index, token, n) ==
    LET normalizedToken == Trim(ToLowerCase(token))
        had == IF normalizedToken \in DOMAIN index THEN index[normalizedToken] ELSE <<>>
    IN  [tok \in (DOMAIN index) \cup {normalizedToken} |->
            IF tok = normalizedToken THEN SetAdd(had, n) ELSE index[tok]]

RECURSIVE XrefAddMany(_, _, _, _)
XrefAddMany(index, tokens, i, n) ==
    IF i > Len(tokens) THEN index
    ELSE XrefAddMany(XrefAdd(index, tokens[i], n), tokens, i + 1, n)

XrefGet(index, token) ==
    LET normalizedToken == Trim(ToLowerCase(token))
    IN  IF normalizedToken \in DOMAIN index THEN index[normalizedToken] ELSE <<>>

IndexContent(t, n, content) ==
    [t EXCEPT !.index = XrefAddMany(@, Tokenize(content), 1, n),
              !.nodes[n].content = content]

(* --------------------------------------------------------------- queries *)

Contains(t, a, b) == NodeContains(t.nodes[a], t.nodes[b])

\* the first node of a's ancestry path that is on b's
FirstCommon(pathA, idsB) ==
    LET hits == SelectSeq(pathA, LAMBDA x : x \in idsB)
    IN  IF Len(hits) > 0 THEN hits[1] ELSE NULL

\* findNCD going to the root without walking the ancestry paths
FindNCD_RootFallback(t, a, b) ==
    IF t.nodes[a].id = t.nodes[b].id THEN a
    ELSE IF Contains(t, a, b) THEN a
    ELSE IF Contains(t, b, a) THEN b
    ELSE t.root

FindNCD(t, a, b) ==
    IF t.nodes[a].id = t.nodes[b].id THEN a
    ELSE IF Contains(t, a, b) THEN a
    ELSE IF Contains(t, b, a) THEN b
    ELSE LET hit == FirstCommon(GetAncestryPath(t, a), Range(GetAncestryPath(t, b)))
         IN  IF hit # NULL THEN hit ELSE t.root

RECURSIVE FoldNCD(_, _, _, _)
FoldNCD(t, ncd, ns, i) ==
    IF i > Len(ns) THEN ncd
    ELSE FoldNCD(t, FindNCD(t, ncd, ns[i]), ns, i + 1)

\* findNCDMultiple stopping after the first two nodes of the list
FindNCDMultiple_FirstPair(t, ns) ==
    IF Len(ns) = 0 THEN t.root
    ELSE IF Len(ns) = 1 THEN ns[1]
    ELSE FindNCD(t, ns[1], ns[2])

FindNCDMultiple(t, ns) ==
    IF Len(ns) = 0 THEN t.root
    ELSE IF Len(ns) = 1 THEN ns[1]
    ELSE FoldNCD(t, ns[1], ns, 2)

\* the loop of searchAND: st = [found, occurrences, allNodes]
RECURSIVE SearchLoop(_, _, _, _)
SearchLoop(t, tokens, i, st) ==
    IF i > Len(tokens) THEN st
    ELSE LET ns == XrefGet(t.index, tokens[i])
         IN  IF Len(ns) = 0 THEN [st EXCEPT !.found = FALSE]
             ELSE SearchLoop(t, tokens, i + 1,
                    [found |-> TRUE,
                     occurrences |-> [k \in (DOMAIN st.occurrences) \cup {tokens[i]} |->
                                        IF k = tokens[i] THEN ns ELSE st.occurrences[k]],
                     allNodes |-> st.allNodes \o ns])

\* searchAND answering from what it collected when a token is missing
SearchAND_NeverNull(t, tokens) ==
    LET st == SearchLoop(t, tokens, 1,
                [found |-> TRUE, occurrences |-> EmptyIndex, allNodes |-> <<>>])
    IN  [found |-> TRUE, context |-> FindNCDMultiple(t, st.allNodes),
         occurrences |-> st.occurrences]

\* searchAND: found = FALSE stands for null
SearchAND(t, tokens) ==
    LET st == SearchLoop(t, tokens, 1,
                [found |-> TRUE, occurrences |-> EmptyIndex, allNodes |-> <<>>])
    IN  IF st.found
        THEN [found |-> TRUE, context |-> FindNCDMultiple(t, st.allNodes),
              occurrences |-> st.occurrences]
        ELSE [found |-> FALSE, context |-> NULL, occurrences |-> EmptyIndex]

\* the loop of searchOR: st = [occurrences, allNodes]
RECURSIVE SearchORLoop(_, _, _, _)
SearchORLoop(t, tokens, i, st) ==
    IF i > Len(tokens) THEN st
    ELSE LET ns == XrefGet(t.index, tokens[i])
         IN  SearchORLoop(t, tokens, i + 1,
                [occurrences |-> [k \in (DOMAIN st.occurrences) \cup {tokens[i]} |->
                                    IF k = tokens[i] THEN ns ELSE st.occurrences[k]],
                 allNodes |-> st.allNodes \o ns])

\* searchOR keeping every occurrence node as its own context
ContextOf_Self(t, n) == n

\* n.isLeaf() ? n.parent || n : n
ContextOf(t, n) ==
    IF IsLeaf(t, n)
    THEN (IF t.nodes[n].parent # NULL THEN t.nodes[n].parent ELSE n)
    ELSE n

\* [...new Set(s)]
RECURSIVE Unique(_, _, _)
Unique(s, i, out) ==
    IF i > Len(s) THEN out ELSE Unique(s, i + 1, SetAdd(out, s[i]))

SearchOR(t, tokens) ==
    LET st == SearchORLoop(t, tokens, 1, [occurrences |-> EmptyIndex, allNodes |-> <<>>])
        lifted == [i \in 1..Len(st.allNodes) |-> ContextOf(t, st.allNodes[i])]
    IN  [contexts |-> Unique(lifted, 1, <<>>), occurrences |-> st.occurrences]

(* --------------------------------------------------- serialize / restore *)

(***************************************************************************)
(* serialize writes the nodes reachable from the root, nested, and the     *)
(* cross-reference as a plain object keyed by token.  JSON.stringify and   *)
(* JSON.parse keep every finite number and every string as it is, and      *)
(* drop an undefined content.  Assigning the key "__proto__" of a plain    *)
(* object sets the object's prototype and creates no own property, so      *)
(* JSON.stringify does not write that key.                                 *)
(***************************************************************************)
ProtoKey == <<"_", "_", "p", "r", "o", "t", "o", "_", "_">>

RECURSIVE SerializeNode(_, _)
SerializeNode(t, n) ==
    [id |-> t.nodes[n].id, q1 |-> t.nodes[n].q1, q2 |-> t.nodes[n].q2,
     content |-> t.nodes[n].content,
     children |-> [i \in 1..Len(t.nodes[n].children) |->
                        SerializeNode(t, t.nodes[n].children[i])]]

SerializeXref(t) ==
    [tok \in (DOMAIN t.index) \ {ProtoKey} |->
        [i \in 1..Len(XrefGet(t.index, tok)) |-> t.nodes[XrefGet(t.index, tok)[i]].id]]

Serialize(t) == [tree |-> SerializeNode(t, t.root), xref |-> SerializeXref(t)]

\* restoreChildren: `nodes` grows by the children of parentNode, in order
RECURSIVE RestoreChildren(_, _, _, _)
RestoreChildren(nodes, parentNode, childrenData, i) ==
    IF i > Len(childrenData) THEN nodes
    ELSE
    LET childData == childrenData[i]
        child == [NewNode(childData.id, childData.q1, childData.q2, parentNode)
                    EXCEPT !.content = childData.content]
        n0 == (childData.id :> child) @@ nodes
        n1 == [n0 EXCEPT ![parentNode].children = Append(@, childData.id)]
        prev == IF i > 1 THEN n1[parentNode].children[i - 1] ELSE NULL
        n2 == IF i > 1
              THEN [n1 EXCEPT ![childData.id].prevSibling = prev,
                              ![prev].nextSibling = childData.id]
              ELSE n1
        n3 == IF Len(childData.children) > 0
              THEN RestoreChildren(n2, childData.id, childData.children, 1)
              ELSE n2
    IN  RestoreChildren(n3, parentNode, childrenData, i + 1)

\* the xref loop of deserialize over one token's ids
RECURSIVE RestoreToken(_, _, _, _, _)
RestoreToken(index, nodeMap, token, nodeIds, i) ==
    IF i > Len(nodeIds) THEN index
    ELSE RestoreToken(IF nodeIds[i] \in nodeMap THEN XrefAdd(index, token, nodeIds[i])
                      ELSE index,
                      nodeMap, token, nodeIds, i + 1)

RECURSIVE RestoreXref(_, _, _, _)
RestoreXref(index, nodeMap, xref, todo) ==
    IF todo = {} THEN index
    ELSE LET token == CHOOSE k \in todo : TRUE
         IN  RestoreXref(RestoreToken(index, nodeMap, token, xref[token], 1),
                         nodeMap, xref, todo \ {token})

SetMax(S) == CHOOSE x \in S : \A y \in S : y <= x

Deserialize(json) ==
    LET fresh == NewTree
        rootNode == [fresh.nodes[fresh.root] EXCEPT !.id = json.tree.id,
                        !.q1 = json.tree.q1, !.q2 = json.tree.q2,
                        !.content = json.tree.content]
        nodes == RestoreChildren((json.tree.id :> rootNode), json.tree.id,
                                 json.tree.children, 1)
        nodeMap == fresh.nodeMap \cup (DOMAIN nodes)
    IN  [nodes |-> nodes,
         root |-> json.tree.id,
         nodeMap |-> nodeMap,
         index |-> RestoreXref(fresh.index, nodeMap, json.xref, DOMAIN json.xref),
         nextId |-> SetMax(nodeMap) + 1,
         q1Counter |-> fresh.q1Counter]

(* ---------------------------------------------------------------- ghosts *)

\* the nodes reachable from the root through children
Attached(t) == Range(GetSubtree(t, t.root))

\* the root, its last child, that child's last child, ...
RECURSIVE RightmostPath(_, _)
RightmostPath(t, n) ==
    IF IsLeaf(t, n) THEN {n} ELSE {n} \cup RightmostPath(t, LastChild(t, n))

\* the occurrences the cross-reference holds
Occurrences(t) == {<<tok, n>> \in (DOMAIN t.index) \X (DOMAIN t.nodes) : n \in Range(t.index[tok])}

\* the heap once the caller holds no reference to a detached node
Collect(t) == [t EXCEPT !.nodes = [k \in Attached(t) |-> t.nodes[k]]]

(* ---------------------------------------------------------------- inputs *)

\* the texts indexContent is given: "A b." and " b  b", and "__proto__"
PlainTexts == {<<"A", " ", "b", ".">>, <<" ", "b", " ", " ", "b">>}

Texts == PlainTexts \cup {ProtoKey}

\* the tokens a query is given: "a", " B" and "__proto__"
QueryTokens == {<<"a">>, <<" ", "B">>, ProtoKey}

\* the token lists of a query
TokenLists ==
    {<<>>} \cup {<<x>> : x \in QueryTokens} \cup {<<x, y>> : x, y \in QueryTokens}

(* --------------------------------------------------------------- actions *)

(***************************************************************************)
(* `last` is the last call and how it ended; `dirty` holds when a node was *)
(* inserted after the last recalculateQ2; `inOrder` holds while every      *)
(* insertion was an appendChild under a node of the rightmost path, that   *)
(* is, in complete-subtree order.  The callers pass attached nodes.        *)
(***************************************************************************)
Call(op, node, error, result) == [op |-> op, node |-> node, error |-> error, result |-> result]

Init ==
    /\ tree = NewTree
    /\ dirty = FALSE
    /\ inOrder = TRUE
    /\ last = Call("new", NULL, "none", NULL)
    /\ properties = <<>>

DoAppendChild(limit) ==
    \E p \in Attached(tree) :
        /\ tree.nextId <= limit
        /\ tree' = AppendChild(tree, p)
        /\ dirty' = TRUE
        /\ inOrder' = (inOrder /\ p \in RightmostPath(tree, tree.root))
        /\ last' = Call("appendChild", tree.nextId, "none", p)
        /\ UNCHANGED properties

DoAddNode(limit) ==
    \E p \in Attached(tree) :
        \E a \in (Range(tree.nodes[p].children) \cup {NULL}) \ {LastChild(tree, p)} :
            /\ tree.nextId <= limit
            /\ tree' = AddNode(tree, p, a)
            /\ dirty' = TRUE
            /\ inOrder' = FALSE
            /\ last' = Call("addNode", tree.nextId, "none", NULL)
            /\ UNCHANGED properties

DoRemoveNode ==
    \E n \in Attached(tree) :
        /\ tree' = Collect(RemoveNode(tree, n).t)
        /\ last' = Call("removeNode", n, RemoveNode(tree, n).error,
                        IF IsRoot(tree, n) THEN <<>> ELSE GetSubtree(tree, n))
        /\ UNCHANGED <<dirty, inOrder, properties>>

DoRecalculateQ2 ==
    /\ tree' = RecalculateQ2(tree)
    /\ dirty' = FALSE
    /\ last' = Call("recalculateQ2", NULL, "none", NULL)
    /\ UNCHANGED <<inOrder, properties>>

DoIndexContent(limit, texts) ==
    \E n \in Attached(tree), text \in texts :
        /\ Cardinality(Occurrences(IndexContent(tree, n, text))) <= limit
        /\ tree' = IndexContent(tree, n, text)
        /\ last' = Call("indexContent", NULL, "none", NULL)
        /\ UNCHANGED <<dirty, inOrder, properties>>

DoRestore ==
    /\ tree' = Deserialize(Serialize(tree))
    /\ last' = Call("deserialize", NULL, "none", NULL)
    /\ inOrder' = FALSE
    /\ UNCHANGED <<dirty, properties>>

(***************************************************************************)
(* removeNode given any node the caller still holds, attached or not: a    *)
(* removed node keeps its parent and sibling fields, and its record stays  *)
(* as long as the caller holds it.                                         *)
(***************************************************************************)
DoRemoveHeldNode ==
    \E n \in DOMAIN tree.nodes :
        /\ tree' = RemoveNode(tree, n).t
        /\ last' = Call("removeNode", n, RemoveNode(tree, n).error,
                        IF IsRoot(tree, n) THEN <<>> ELSE GetSubtree(tree, n))
        /\ UNCHANGED <<dirty, inOrder, properties>>

\* the queries: they leave the tree as it is and return their answer
DoContains ==
    \E a, b \in Attached(tree) :
        /\ last' = Call("contains", <<a, b>>, "none", Contains(tree, a, b))
        /\ UNCHANGED <<tree, dirty, inOrder, properties>>

DoFindNCD ==
    \E a, b \in Attached(tree) :
        /\ last' = Call("findNCD", <<a, b>>, "none", FindNCD(tree, a, b))
        /\ UNCHANGED <<tree, dirty, inOrder, properties>>

DoSearchAND ==
    \E tokens \in TokenLists :
        /\ last' = Call("searchAND", tokens, "none", SearchAND(tree, tokens))
        /\ UNCHANGED <<tree, dirty, inOrder, properties>>

DoSearchOR ==
    \E tokens \in TokenLists :
        /\ last' = Call("searchOR", tokens, "none", SearchOR(tree, tokens))
        /\ UNCHANGED <<tree, dirty, inOrder, properties>>

\* the structure of the tree
Next ==
    \/ DoAppendChild(MaxNodes)
    \/ DoAddNode(MaxNodes)
    \/ DoRemoveNode
    \/ DoRecalculateQ2

Spec == Init /\ [][Next]_vars

\* the structure of the tree, for the queries over lists of nodes
NextList ==
    \/ DoAppendChild(MaxListNodes)
    \/ DoAddNode(MaxListNodes)
    \/ DoRemoveNode
    \/ DoRecalculateQ2

SpecList == Init /\ [][NextList]_vars

\* the cross-reference
NextXref ==
    \/ DoAppendChild(MaxXrefNodes)
    \/ DoRemoveNode
    \/ DoRecalculateQ2
    \/ DoIndexContent(MaxOccurrences, PlainTexts)

SpecXref == Init /\ [][NextXref]_vars

\* the cross-reference, for the searches over every token list
NextSearch ==
    \/ DoAppendChild(MaxSearchNodes)
    \/ DoRemoveNode
    \/ DoRecalculateQ2
    \/ DoIndexContent(MaxSearchOccurrences, PlainTexts)

SpecSearch == Init /\ [][NextSearch]_vars

\* the cross-reference and the snapshot
NextRestore ==
    \/ DoAppendChild(MaxRestoreNodes)
    \/ DoRemoveNode
    \/ DoRecalculateQ2
    \/ DoIndexContent(MaxRestoreOccurrences, Texts)
    \/ DoRestore

SpecRestore == Init /\ [][NextRestore]_vars

\* a tree whose caller keeps the nodes it removed
NextHeld ==
    \/ DoAppendChild(MaxHeldNodes)
    \/ DoRemoveHeldNode
    \/ DoIndexContent(MaxHeldOccurrences, PlainTexts)

SpecHeld == Init /\ [][NextHeld]_vars

\* the queries
NextQuery ==
    \/ DoAppendChild(MaxQueryNodes)
    \/ DoRecalculateQ2
    \/ DoIndexContent(MaxQueryOccurrences, PlainTexts)
    \/ DoContains
    \/ DoFindNCD
    \/ DoSearchAND
    \/ DoSearchOR

SpecQuery == Init /\ [][NextQuery]_vars

(* ------------------------------------------------------------- CTGEngine *)

(***************************************************************************)
(* CTGEngine (src/src/core/ctgEngine.ts) keeps no state: its methods are   *)
(* functions of node ids.  A node id is a JavaScript number holding an     *)
(* integer.  The engine multiplies ids as numbers (3 * n + 1, 2^k * p - 1: *)
(* exact below 2^53) and tests and halves them with & and >>, which first  *)
(* convert their operand to a signed 32-bit integer (ToInt32: modulo 2^32, *)
(* then the sign bit).  An integer is modelled as <<h, l>>, standing for   *)
(* h * 2^16 + l with l in 0 .. 2^16 - 1, so that the products are exact    *)
(* and the conversion is computed.  null is the empty tuple.               *)
(***************************************************************************)
Base == 2^16

Wide(i) == <<i \div Base, i % Base>>

Carry(h, l) == <<h + (l \div Base), l % Base>>

\* c * x + d, for small c and d
Scale(x, c, d) == Carry(x[1] * c, x[2] * c + d)

WideLess(x, y) == x[1] < y[1] \/ (x[1] = y[1] /\ x[2] < y[2])

One == Wide(1)

NoId == <<>>

\* the conversion of the operand of & and >>
ToInt32(x) ==
    LET hh == x[1] % Base
    IN  (IF hh >= Base \div 2 THEN hh - Base ELSE hh) * Base + x[2]

\* n & 1
BitAnd1(n) == ToInt32(n) % 2

\* n >> 1
ShiftRight1(n) == Wide(ToInt32(n) \div 2)

\* Math.pow(2, k) * p, fourteen doublings at a time
RECURSIVE Pow2Times(_, _)
Pow2Times(k, p) ==
    IF k <= 14 THEN Scale(p, 2^k, 0) ELSE Pow2Times(k - 14, Scale(p, 2^14, 0))

\* x % 3 for x >= 0 (2^16 is 1 modulo 3)
Mod3(x) == (x[1] + x[2]) % 3

\* x / 3 for x >= 0 divisible by 3
Div3(x) == <<x[1] \div 3, ((x[1] % 3) * Base + x[2]) \div 3>>

\* how a call ends: it returns a value, throws, or never returns (its loop
\* comes back to a state it was in); steps counts the iterations of its loop
Returns(value, steps) ==
    [outcome |-> "returns", error |-> "none", value |-> value, steps |-> steps]

Throws(error, steps) ==
    [outcome |-> "throws", error |-> error, value |-> NoId, steps |-> steps]

Loops(steps) ==
    [outcome |-> "loops", error |-> "none", value |-> NoId, steps |-> steps]

\* a number that is no integer: i + 1/2
Half(i) == <<i \div Base, i % Base, 1>>

\* Number.isInteger(n)
IsInteger(n) == Len(n) = 2

\* validatePositiveInteger letting 0 pass
ValidatePositiveInteger_AllowsZero(n) == ~(~IsInteger(n) \/ WideLess(n, Wide(0)))

\* validatePositiveInteger passes: not (!Number.isInteger(n) || n < 1)
ValidatePositiveInteger(n) == ~(~IsInteger(n) \/ WideLess(n, One))

(***************************************************************************)
(* while ((n & 1) === 0) n = n >> 1, counting the iterations in k.  The    *)
(* loop has no state but n: when n >> 1 is n again (n is 0) with n & 1     *)
(* still 0, the loop never ends.                                           *)
(***************************************************************************)
RECURSIVE HalveLoop(_, _)
HalveLoop(n, k) ==
    IF BitAnd1(n) # 0 THEN [n |-> n, k |-> k, ends |-> TRUE]
    ELSE IF ShiftRight1(n) = n THEN [n |-> n, k |-> k + 1, ends |-> FALSE]
    ELSE HalveLoop(ShiftRight1(n), k + 1)

GetOddPart(n) ==
    IF ~ValidatePositiveInteger(n) THEN Throws("InvalidNodeId", 0)
    ELSE LET r == HalveLoop(n, 0)
         IN  IF r.ends THEN Returns(r.n, r.k) ELSE Loops(r.k)

GetPowerOfTwo(n) ==
    IF ~ValidatePositiveInteger(n) THEN Throws("InvalidNodeId", 0)
    ELSE LET r == HalveLoop(n, 0)
         IN  IF r.ends THEN Returns(Wide(r.k), r.k) ELSE Loops(r.k)

GetParent(n) ==
    IF ~ValidatePositiveInteger(n) THEN Throws("InvalidNodeId", 0)
    ELSE IF n = One THEN Returns(NoId, 0)
    ELSE IF BitAnd1(n) = 0 THEN Returns(ShiftRight1(n), 0)
    ELSE GetOddPart(Scale(n, 3, 1))

\* getAncestryChain between two tests of its loop: the chain so far, after k iterations
Walking(chain, k) ==
    [outcome |-> "walking", error |-> "none", value |-> chain, steps |-> k]

\* getAncestryChain up to the first test of its loop
GetAncestryChain(n) ==
    IF ~ValidatePositiveInteger(n) THEN Throws("InvalidNodeId", 0)
    ELSE Walking(<<n>>, 0)

\* the test of the loop of getAncestryChain and, when it passes, one iteration
ChainStep(chain, k) ==
    LET current == chain[Len(chain)]
        parent == GetParent(current)
    IN  IF current = One THEN Returns(chain, k)
        ELSE IF parent.outcome = "throws" THEN Throws(parent.error, k + 1)
        ELSE IF parent.outcome = "loops" THEN Loops(k + 1)
        ELSE IF parent.value = NoId THEN Returns(chain, k + 1)
        ELSE Walking(Append(chain, parent.value), k + 1)

\* children.sort((a, b) => a - b)
RECURSIVE SortAscending(_)
SortAscending(s) ==
    IF Len(s) <= 1 THEN s
    ELSE LET least == CHOOSE i \in 1..Len(s) :
                        \A j \in 1..Len(s) :
                            ~WideLess(s[j], s[i]) /\ (s[j] = s[i] => i <= j)
         IN  <<s[least]>> \o SortAscending(SubSeq(s, 1, least - 1) \o SubSeq(s, least + 1, Len(s)))

(***************************************************************************)
(* One turn of the loop of findAdmissibleAssociates, up to the call of     *)
(* getParent: the candidate (Math.pow(2, k) * parentID - 1) / 3, and       *)
(* whether it passed the tests before that call (the numerator divisible   *)
(* by 3, the candidate positive, an integer and odd).                      *)
(***************************************************************************)
Candidate(parentID, k) ==
    LET numerator == Scale(Pow2Times(k, parentID), 1, -1)
        candidate == Div3(numerator)
    IN  [candidate |-> candidate,
         asked |-> /\ Mod3(numerator) = 0
                   /\ WideLess(Wide(0), candidate)
                   /\ BitAnd1(candidate) = 1]

\* findAdmissibleAssociates keeping a candidate whatever its parent is
VerifiesParent_Always(parentID, parent) == TRUE

\* this.getParent(candidate) === parentID
VerifiesParent(parentID, parent) == parent.value = parentID

(***************************************************************************)
(* The loop of findAdmissibleAssociates over k = 1 .. maxSearch: it stops  *)
(* at the first exponent whose getParent call does not return; otherwise   *)
(* it keeps, in the order of k, the candidates whose parent is parentID.   *)
(***************************************************************************)
FindAdmissibleAssociates(parentID, maxSearch) ==
    IF ~ValidatePositiveInteger(parentID) THEN Throws("InvalidNodeId", 0)
    ELSE
    LET turns == [k \in 1..maxSearch |-> Candidate(parentID, k)]
        parents == [k \in 1..maxSearch |->
                        IF turns[k].asked THEN GetParent(turns[k].candidate)
                        ELSE Returns(NoId, 0)]
        stuck == {k \in 1..maxSearch : parents[k].outcome # "returns"}
        first == CHOOSE k \in stuck : \A j \in stuck : k <= j
        kept == SelectSeq([k \in 1..maxSearch |-> k],
                          LAMBDA k : turns[k].asked /\ VerifiesParent(parentID, parents[k]))
        children == [i \in 1..Len(kept) |-> turns[kept[i]].candidate]
    IN  IF stuck # {}
        THEN [parents[first] EXCEPT !.steps = first]
        ELSE Returns(SortAscending(children), maxSearch)

\* the search depth mintNextChild passes to findAdmissibleAssociates
MintSearch == 30

\* mintNextChild returning the smallest admissible child, minted already or not
MintNextChild_IgnoresUsed(parentID, currentChildren) ==
    IF ~ValidatePositiveInteger(parentID) THEN Throws("InvalidNodeId", 0)
    ELSE LET admissible == FindAdmissibleAssociates(parentID, MintSearch)
         IN  IF admissible.outcome # "returns" THEN admissible
             ELSE IF Len(admissible.value) > 0 THEN Returns(admissible.value[1], admissible.steps)
             ELSE Throws("NoAvailableChild", admissible.steps)

MintNextChild(parentID, currentChildren) ==
    IF ~ValidatePositiveInteger(parentID) THEN Throws("InvalidNodeId", 0)
    ELSE LET admissible == FindAdmissibleAssociates(parentID, MintSearch)
             free == IF admissible.outcome = "returns"
                     THEN SelectSeq(admissible.value, LAMBDA c : c \notin Range(currentChildren))
                     ELSE <<>>
         IN  IF admissible.outcome # "returns" THEN admissible
             ELSE IF Len(free) > 0 THEN Returns(free[1], admissible.steps)
             ELSE Throws("NoAvailableChild", admissible.steps)

\* isOddNode: (n & 1) === 1, a boolean
IsOddNode(n) ==
    IF ~ValidatePositiveInteger(n) THEN Throws("InvalidNodeId", 0)
    ELSE Returns(BitAnd1(n) = 1, 0)

\* the loop of getAncestryChain, from one of its tests to its end
RECURSIVE WalkChain(_)
WalkChain(w) ==
    IF w.outcome = "walking" THEN WalkChain(ChainStep(w.value, w.steps)) ELSE w

\* getNodeInfo: the calls it makes, in their order, and the record it builds
GetNodeInfo(n) ==
    IF ~ValidatePositiveInteger(n) THEN Throws("InvalidNodeId", 0)
    ELSE LET oddBase == GetOddPart(n)
             pillarLevel == GetPowerOfTwo(n)
             parent == GetParent(n)
             chain == WalkChain(GetAncestryChain(n))
         IN  IF oddBase.outcome # "returns" THEN oddBase
             ELSE IF pillarLevel.outcome # "returns" THEN pillarLevel
             ELSE IF parent.outcome # "returns" THEN parent
             ELSE IF chain.outcome # "returns" THEN chain
             ELSE Returns([id |-> n,
                           type |-> IF n = One THEN "root"
                                    ELSE IF IsOddNode(n).value THEN "odd" ELSE "even",
                           oddBase |-> oddBase.value,
                           pillarLevel |-> pillarLevel.value,
                           parent |-> parent.value,
                           ancestryDepth |-> Len(chain.value) - 1],
                          chain.steps)

\* verifyAncestry: chain.includes(ancestorID), a boolean
VerifyAncestry(ancestorID, descendantID) ==
    IF ~ValidatePositiveInteger(ancestorID) \/ ~ValidatePositiveInteger(descendantID)
    THEN Throws("InvalidNodeId", 0)
    ELSE LET chain == WalkChain(GetAncestryChain(descendantID))
         IN  IF chain.outcome # "returns" THEN chain
             ELSE Returns(ancestorID \in Range(chain.value), chain.steps)

\* getPillar: oddBase * Math.pow(2, k) for k = 0 .. maxVersions - 1
GetPillar(n, maxVersions) ==
    IF ~ValidatePositiveInteger(n) THEN Throws("InvalidNodeId", 0)
    ELSE LET oddBase == GetOddPart(n)
         IN  IF oddBase.outcome # "returns" THEN oddBase
             ELSE Returns([i \in 1..maxVersions |-> Pow2Times(i - 1, oddBase.value)],
                          oddBase.steps)

\* mintNextVersion: n * 2, a product of numbers
MintNextVersion(n) ==
    IF ~ValidatePositiveInteger(n) THEN Throws("InvalidNodeId", 0)
    ELSE Returns(Scale(n, 2, 0), 0)

\* verifyParenthood: this.getParent(childID) === parentID, a boolean
VerifyParenthood(parentID, childID) ==
    IF ~ValidatePositiveInteger(parentID) \/ ~ValidatePositiveInteger(childID)
    THEN Throws("InvalidNodeId", 0)
    ELSE LET parent == GetParent(childID)
         IN  IF parent.outcome # "returns" THEN parent
             ELSE Returns(parent.value = parentID, parent.steps)

(* ------------------------------------------------------ CTGEngine: calls *)

\* Largest of the small node ids the calls are given.
MaxId == 12

\* Largest search depth findAdmissibleAssociates is given.
MaxSearch == 6

\* Most children minted one after another before a call of mintNextChild.
MaxMinted == 3

\* Largest number of versions getPillar is asked for.
MaxVersions == 4

(***************************************************************************)
(* The ids the calls are given: 0 .. MaxId, and ids whose computation      *)
(* leaves the signed 32-bit range: 113383 (its ancestry passes 827370449,  *)
(* and 3 * 827370449 + 1 is above 2^31), 715827883 (the smallest odd n     *)
(* with 3n + 1 above 2^31), 1431655765 (3n + 1 is 2^32), 2^31, 2^31 + 2    *)
(* and 2^32.                                                               *)
(***************************************************************************)
LargeIds ==
    {Wide(113383), Wide(715827883), Wide(1431655765),
     <<2^15, 0>>, <<2^15, 2>>, <<2^16, 0>>}

SmallIds == {Wide(i) : i \in 0..MaxId}

\* ids that are no positive integers: 0 is among the small ids; -5 and 3.5
InvalidIds == {Wide(-5), Half(3)}

Ids == SmallIds \cup LargeIds \cup InvalidIds

\* the ids given to the calls that walk a whole ancestry or search to depth 30
ShortIds == SmallIds \cup InvalidIds

\* the arrays of minted children mintNextChild is given
UsedLists == {<<>>, <<Wide(3)>>, <<Wide(5)>>, <<Wide(5), Wide(21)>>, <<Wide(13), Wide(3)>>}

(***************************************************************************)
(* The engine keeps no state, so a call does not depend on the calls made  *)
(* before it: a behaviour is the construction of the engine, one call and, *)
(* for getAncestryChain, the turns of its loop; after mintNextChild, the   *)
(* calls of a caller that adds the minted child and mints again.           *)
(***************************************************************************)
Idle == last.op = "new"

DoGetOddPart ==
    \E n \in Ids :
        /\ Idle
        /\ LET r == GetOddPart(n)
           IN  last' = Call("getOddPart", n, r.error, r)
        /\ UNCHANGED <<tree, dirty, inOrder, properties>>

DoGetPowerOfTwo ==
    \E n \in Ids :
        /\ Idle
        /\ LET r == GetPowerOfTwo(n)
           IN  last' = Call("getPowerOfTwo", n, r.error, r)
        /\ UNCHANGED <<tree, dirty, inOrder, properties>>

DoGetParent ==
    \E n \in Ids :
        /\ Idle
        /\ LET r == GetParent(n)
           IN  last' = Call("getParent", n, r.error, r)
        /\ UNCHANGED <<tree, dirty, inOrder, properties>>

DoGetAncestryChain ==
    \E n \in Ids :
        /\ Idle
        /\ LET r == GetAncestryChain(n)
           IN  last' = Call("getAncestryChain", n, r.error, r)
        /\ UNCHANGED <<tree, dirty, inOrder, properties>>

DoChainStep ==
    /\ last.op = "getAncestryChain"
    /\ last.result.outcome = "walking"
    /\ LET r == ChainStep(last.result.value, last.result.steps)
       IN  last' = [last EXCEPT !.error = r.error, !.result = r]
    /\ UNCHANGED <<tree, dirty, inOrder, properties>>

DoFindAdmissibleAssociates ==
    \E parentID \in Ids, maxSearch \in 0..MaxSearch :
        /\ Idle
        /\ LET r == FindAdmissibleAssociates(parentID, maxSearch)
           IN  last' = Call("findAdmissibleAssociates", <<parentID, maxSearch>>, r.error, r)
        /\ UNCHANGED <<tree, dirty, inOrder, properties>>

\* the third argument recorded is the list of the values minted by the calls
\* before this one in a sequence of calls (none for a first call)
DoMintNextChild ==
    \E parentID \in ShortIds, currentChildren \in UsedLists :
        /\ Idle
        /\ LET r == MintNextChild(parentID, currentChildren)
           IN  last' = Call("mintNextChild", <<parentID, currentChildren, <<>> >>, r.error, r)
        /\ UNCHANGED <<tree, dirty, inOrder, properties>>

(***************************************************************************)
(* The caller that mints one child after another for the same parent: the  *)
(* value a call returned is added to the array of minted children before   *)
(* the next call (secondChild = engine.mintNextChild(59, [firstChild])).   *)
(***************************************************************************)
DoMintAgain ==
    /\ last.op = "mintNextChild"
    /\ last.result.outcome = "returns"
    /\ Len(last.node[3]) < MaxMinted
    /\ LET parentID == last.node[1]
           currentChildren == Append(last.node[2], last.result.value)
           r == MintNextChild(parentID, currentChildren)
       IN  last' = Call("mintNextChild",
                        <<parentID, currentChildren, Append(last.node[3], last.result.value)>>,
                        r.error, r)
    /\ UNCHANGED <<tree, dirty, inOrder, properties>>

DoIsOddNode ==
    \E n \in Ids :
        /\ Idle
        /\ LET r == IsOddNode(n)
           IN  last' = Call("isOddNode", n, r.error, r)
        /\ UNCHANGED <<tree, dirty, inOrder, properties>>

DoGetNodeInfo ==
    \E n \in ShortIds :
        /\ Idle
        /\ LET r == GetNodeInfo(n)
           IN  last' = Call("getNodeInfo", n, r.error, r)
        /\ UNCHANGED <<tree, dirty, inOrder, properties>>

DoVerifyAncestry ==
    \E ancestorID \in Ids, descendantID \in ShortIds :
        /\ Idle
        /\ LET r == VerifyAncestry(ancestorID, descendantID)
           IN  last' = Call("verifyAncestry", <<ancestorID, descendantID>>, r.error, r)
        /\ UNCHANGED <<tree, dirty, inOrder, properties>>

DoGetPillar ==
    \E n \in Ids, maxVersions \in 0..MaxVersions :
        /\ Idle
        /\ LET r == GetPillar(n, maxVersions)
           IN  last' = Call("getPillar", <<n, maxVersions>>, r.error, r)
        /\ UNCHANGED <<tree, dirty, inOrder, properties>>

DoMintNextVersion ==
    \E n \in Ids :
        /\ Idle
        /\ LET r == MintNextVersion(n)
           IN  last' = Call("mintNextVersion", n, r.error, r)
        /\ UNCHANGED <<tree, dirty, inOrder, properties>>

DoVerifyParenthood ==
    \E parentID \in Ids, childID \in Ids :
        /\ Idle
        /\ LET r == VerifyParenthood(parentID, childID)
           IN  last' = Call("verifyParenthood", <<parentID, childID>>, r.error, r)
        /\ UNCHANGED <<tree, dirty, inOrder, properties>>

\* the calls of the engine
NextCTG ==
    \/ DoGetOddPart
    \/ DoGetPowerOfTwo
    \/ DoGetParent
    \/ DoGetAncestryChain
    \/ DoChainStep
    \/ DoFindAdmissibleAssociates
    \/ DoMintNextChild
    \/ DoMintAgain
    \/ DoIsOddNode
    \/ DoGetNodeInfo
    \/ DoVerifyAncestry
    \/ DoGetPillar
    \/ DoMintNextVersion
    \/ DoVerifyParenthood

SpecCTG == Init /\ [][NextCTG]_vars

(* ------------------------------------------------------- RealEstateLedger *)

(***************************************************************************)
(* RealEstateLedger (src/src/parser/htmlParser.ts) keeps `properties`, a   *)
(* Map from ledger id to property, modelled as the sequence of its values  *)
(* in insertion order; of a property the model keeps the ids: its own, its *)
(* price versions' and its shares'.  The ledger mints with its own         *)
(* abridged copy of the engine, which is CTGEngine without                 *)
(* validatePositiveInteger; the ids it is given here are positive          *)
(* integers, for which the copy computes what CTGEngine computes.          *)
(***************************************************************************)
NewProperty(ledgerId) == [ledgerId |-> ledgerId, versions |-> <<>>, shares |-> <<>>]

\* Array.from(this.properties.keys())
Keys(props) == [i \in 1..Len(props) |-> props[i].ledgerId]

\* the place of this.properties.get(id), 0 when there is none
Place(props, id) == IndexOf(Keys(props), id) + 1

\* this.properties.set(property.ledgerId, property)
MapSet(props, property) ==
    IF Place(props, property.ledgerId) = 0 THEN Append(props, property)
    ELSE [props EXCEPT ![Place(props, property.ledgerId)] = property]

\* an operation of the ledger: the map it leaves and how the call ended
Ledger(props, result) == [props |-> props, result |-> result]

\* createProperty once mintNextChild has ended
PropertyMinted(props, ledgerId) ==
    IF ledgerId.outcome # "returns" THEN Ledger(props, ledgerId)
    ELSE Ledger(MapSet(props, NewProperty(ledgerId.value)), ledgerId)

\* Array.from(this.properties.keys()).filter(id => this.ctg.getParent(id) === parentId)
ExistingChildren(props, parentId) ==
    SelectSeq(Keys(props), LAMBDA id : GetParent(id).value = parentId)

CreateProperty(props, parentId) ==
    PropertyMinted(props, MintNextChild(parentId, ExistingChildren(props, parentId)))

\* updatePrice on the property at a place of the map: the id of its last version
LastVersionId(property) ==
    IF Len(property.versions) > 0 THEN property.versions[Len(property.versions)]
    ELSE property.ledgerId

\* updatePrice once mintNextVersion has returned
VersionMinted(props, at, versionId) ==
    Ledger([props EXCEPT ![at].versions = Append(@, versionId.value)], versionId)

UpdatePrice(props, propertyId) ==
    IF Place(props, propertyId) = 0 THEN Ledger(props, Throws("PropertyNotFound", 0))
    ELSE VersionMinted(props, Place(props, propertyId),
                       MintNextVersion(LastVersionId(props[Place(props, propertyId)])))

\* createShare once mintNextChild has ended
ShareMinted(props, at, shareId) ==
    IF shareId.outcome # "returns" THEN Ledger(props, shareId)
    ELSE Ledger([props EXCEPT ![at].shares = Append(@, shareId.value)], shareId)

CreateShare(props, propertyId) ==
    IF Place(props, propertyId) = 0 THEN Ledger(props, Throws("PropertyNotFound", 0))
    ELSE ShareMinted(props, Place(props, propertyId),
                     MintNextChild(propertyId, props[Place(props, propertyId)].shares))

\* the ids the ledger has issued: of its properties, their versions and their shares
RECURSIVE IssuedFrom(_, _)
IssuedFrom(props, i) ==
    IF i > Len(props) THEN <<>>
    ELSE <<props[i].ledgerId>> \o props[i].versions \o props[i].shares
            \o IssuedFrom(props, i + 1)

Issued(props) == IssuedFrom(props, 1)

\* Most ids one ledger issues.
MaxIssued == 4

\* the parents given to createProperty: 1 (the root) or another property
ParentIds == {One} \cup Range(Keys(properties))

\* the properties named in updatePrice and createShare: those of the ledger,
\* and 2, which is none of them
PropertyIds == Range(Keys(properties)) \cup {Wide(2)}

\* a call of the ledger has ended: the map it leaves and what it returned
Ended(op, id, r) ==
    /\ properties' = r.props
    /\ last' = Call(op, id, r.result.error, r.result)

DoCreateProperty ==
    \E parentId \in ParentIds :
        /\ Len(Issued(properties)) < MaxIssued
        /\ Ended("createProperty", parentId, CreateProperty(properties, parentId))
        /\ UNCHANGED <<tree, dirty, inOrder>>

DoUpdatePrice ==
    \E propertyId \in PropertyIds :
        /\ Len(Issued(properties)) < MaxIssued
        /\ Ended("updatePrice", propertyId, UpdatePrice(properties, propertyId))
        /\ UNCHANGED <<tree, dirty, inOrder>>

DoCreateShare ==
    \E propertyId \in PropertyIds :
        /\ Len(Issued(properties)) < MaxIssued
        /\ Ended("createShare", propertyId, CreateShare(properties, propertyId))
        /\ UNCHANGED <<tree, dirty, inOrder>>

\* the calls of one ledger
NextLedger ==
    \/ DoCreateProperty
    \/ DoUpdatePrice
    \/ DoCreateShare

SpecLedger == Init /\ [][NextLedger]_vars

(* ---------------------------------------------------------- the structure *)

\* a is b or an ancestor of b, read from the children lists
AncestorOrSelf(t, a, b) == b \in Range(GetSubtree(t, a))

ProperAncestor(t, a, b) == a # b /\ AncestorOrSelf(t, a, b)

CommonAncestors(t, S) == {c \in Attached(t) : \A n \in S : AncestorOrSelf(t, c, n)}

\* the common ancestors-or-selves of S that every other one is above
Deepest(t, S) ==
    {c \in CommonAncestors(t, S) : \A d \in CommonAncestors(t, S) : AncestorOrSelf(t, d, c)}

NodeLists(t) == UNION {[1..k -> Attached(t)] : k \in 1..MaxListLen}

Depth(t, n) == Len(GetAncestryPath(t, n)) - 1

(* ---------------------------------------------------------------- claims *)

(***************************************************************************)
(* C1: in a tree built only with appendChild in complete-subtree order and *)
(* passed through recalculateQ2, A.contains(B) holds exactly when A is a   *)
(* proper ancestor of B, for every pair of nodes of the tree.              *)
(***************************************************************************)
C1_ContainsIffProperAncestor ==
    (inOrder /\ ~dirty) =>
        \A a, b \in Attached(tree) : Contains(tree, a, b) <=> ProperAncestor(tree, a, b)

\* a recomputed tree in subtree order with a grandchild and two branches
C1_Witness ==
    /\ inOrder /\ ~dirty
    /\ \E a, b, c \in Attached(tree) :
        /\ a # tree.root /\ Contains(tree, a, b)
        /\ c # tree.root /\ ~AncestorOrSelf(tree, c, b) /\ ~AncestorOrSelf(tree, b, c)
        /\ ~Contains(tree, c, b) /\ ~Contains(tree, b, c)

(***************************************************************************)
(* C3: in a tree built in complete-subtree order and recomputed,           *)
(* findNCDMultiple of a list of nodes is the one deepest node that is an   *)
(* ancestor-or-self of every node of the list; the lists of every order    *)
(* over the same nodes are all covered, so the fold order does not matter. *)
(***************************************************************************)
C3_NCDMultipleIsDeepest ==
    (inOrder /\ ~dirty) =>
        \A ns \in NodeLists(tree) :
            Deepest(tree, Range(ns)) = {FindNCDMultiple(tree, ns)}

\* two nodes of different branches whose dominator is neither of them nor the root
C3_Witness ==
    /\ inOrder /\ ~dirty
    /\ \E a, b, c \in Attached(tree) :
        /\ ~AncestorOrSelf(tree, a, b) /\ ~AncestorOrSelf(tree, b, a)
        /\ FindNCDMultiple(tree, <<a, b, c>>) \notin {a, b, c, tree.root}
        /\ FindNCDMultiple(tree, <<c, b, a>>) = FindNCDMultiple(tree, <<a, b, c>>)

(***************************************************************************)
(* C8: immediately after recalculateQ2, whatever the shape of the tree,    *)
(* the q2 of a node is greater than the q2 of each of its descendants (so  *)
(* less than the q2 of each of its ancestors), the q2 values are pairwise  *)
(* distinct and the root holds the largest.                                *)
(***************************************************************************)
C8_Q2PostOrder ==
    last.op = "recalculateQ2" =>
        /\ \A a, b \in Attached(tree) :
            /\ ProperAncestor(tree, a, b) => NumLess(tree.nodes[b].q2, tree.nodes[a].q2)
            /\ a # b => tree.nodes[a].q2 # tree.nodes[b].q2
        /\ \A n \in Attached(tree) \ {tree.root} :
            NumLess(tree.nodes[n].q2, tree.nodes[tree.root].q2)

\* a recomputed tree that was not built in subtree order and has a grandchild
C8_Witness ==
    /\ last.op = "recalculateQ2"
    /\ ~inOrder
    /\ \E n \in Attached(tree) : Depth(tree, n) >= 2
    /\ \E n \in Attached(tree) : Len(tree.nodes[n].children) >= 2

(***************************************************************************)
(* C2: a contains, findNCD or searchAND query made after an appendChild or *)
(* addNode that no recalculateQ2 followed does not answer from the stale   *)
(* close coordinates: the coordinates are recomputed before the answer, or *)
(* the query fails with StaleCoordinates.                                  *)
(***************************************************************************)
C2_StaleQueryRefused ==
    (last.op \in {"contains", "findNCD", "searchAND"} /\ dirty) =>
        last.error = "StaleCoordinates"

\* the tokens the cross-reference or a query may name
KnownTokens(t) ==
    DOMAIN t.index \cup UNION {Range(Tokenize(text)) : text \in Texts}
                   \cup {Trim(ToLowerCase(q)) : q \in QueryTokens}

\* the occurrence nodes of the tokens of a query, token after token
RECURSIVE OccurrenceNodes(_, _, _)
OccurrenceNodes(t, tokens, i) ==
    IF i > Len(tokens) THEN <<>>
    ELSE XrefGet(t.index, tokens[i]) \o OccurrenceNodes(t, tokens, i + 1)

\* the subtree of c holds an occurrence of every token of the query
HoldsAll(t, c, tokens) ==
    \A i \in 1..Len(tokens) :
        \E n \in Range(XrefGet(t.index, tokens[i])) : AncestorOrSelf(t, c, n)

(***************************************************************************)
(* C4: in a tree built in complete-subtree order and recomputed, the       *)
(* context of a searchAND result is the narrowest node whose subtree holds *)
(* at least one occurrence of every query token: its subtree holds them    *)
(* and the subtree of none of its descendants does.                        *)
(***************************************************************************)
C4_ContextIsNarrowest ==
    (inOrder /\ ~dirty) =>
        \A tokens \in TokenLists \ {<<>>} :
            SearchAND(tree, tokens).found =>
                /\ HoldsAll(tree, SearchAND(tree, tokens).context, tokens)
                /\ \A d \in Attached(tree) :
                    ProperAncestor(tree, SearchAND(tree, tokens).context, d)
                        => ~HoldsAll(tree, d, tokens)

C6_SubtreeDetachedAndPurged ==
    [][(/\ last'.op = "removeNode"
        /\ last'.error = "none"
        /\ last'.node \in Attached(tree))
       => LET sub == Range(GetSubtree(tree, last'.node))
          IN  /\ Attached(tree') \cap sub = {}
              /\ \A k \in sub : GetNode(tree', k) = NULL
              /\ \A tok \in DOMAIN tree'.index : Range(tree'.index[tok]) \cap sub = {}
              /\ \A tok \in DOMAIN tree.index \cup DOMAIN tree'.index :
                    \A m \in Attached(tree) \ sub :
                        m \in Range(XrefGet(tree.index, tok))
                            <=> m \in Range(XrefGet(tree'.index, tok))]_vars

\* a subtree of two nodes was removed, an entry was emptied and another kept its node
C6_Witness ==
    /\ last.op = "removeNode"
    /\ last.error = "none"
    /\ Len(last.result) >= 2
    /\ \E tok \in DOMAIN tree.index : Len(tree.index[tok]) = 0
    /\ \E tok \in DOMAIN tree.index : Len(tree.index[tok]) > 0

(***************************************************************************)
(* C7: after any sequence of indexContent calls, a node is in the          *)
(* occurrence list of a token exactly when the token is one of the         *)
(* normalized tokens of the content the node now stores, and it is there   *)
(* once.                                                                   *)
(***************************************************************************)
C7_IndexMatchesContent ==
    \A n \in Attached(tree) :
        \A tok \in KnownTokens(tree) :
            LET ns == XrefGet(tree.index, tok)
            IN  /\ n \in Range(ns) <=>
                    (/\ tree.nodes[n].content # NoContent
                     /\ tok \in Range(Tokenize(tree.nodes[n].content)))
                /\ Cardinality({i \in 1..Len(ns) : ns[i] = n}) <= 1

(***************************************************************************)
(* C9: DTree.deserialize(T.serialize()) has the node ids of T, the q1 and  *)
(* q2 of T on every node, the children of T in their order with the        *)
(* sibling links of that order, and the cross-reference sets of T; so      *)
(* contains, findNCD and searchAND answer on it as they do on T.           *)
(***************************************************************************)
C9_RoundTripSame ==
    LET r == Deserialize(Serialize(tree))
    IN  /\ Attached(r) = Attached(tree)
        /\ r.nodeMap = tree.nodeMap
        /\ \A n \in Attached(tree) :
            /\ r.nodes[n].id = tree.nodes[n].id
            /\ r.nodes[n].q1 = tree.nodes[n].q1
            /\ r.nodes[n].q2 = tree.nodes[n].q2
            /\ r.nodes[n].parent = tree.nodes[n].parent
            /\ r.nodes[n].children = tree.nodes[n].children
            /\ \A i \in 1..Len(r.nodes[n].children) :
                LET c == r.nodes[r.nodes[n].children[i]]
                IN  /\ c.prevSibling = IF i = 1 THEN NULL ELSE r.nodes[n].children[i - 1]
                    /\ c.nextSibling = IF i = Len(r.nodes[n].children) THEN NULL
                                       ELSE r.nodes[n].children[i + 1]
        /\ \A tok \in KnownTokens(tree) \cup DOMAIN r.index :
            Range(XrefGet(r.index, tok)) = Range(XrefGet(tree.index, tok))
        /\ \A a, b \in Attached(tree) :
            /\ Contains(r, a, b) = Contains(tree, a, b)
            /\ FindNCD(r, a, b) = FindNCD(tree, a, b)
        /\ \A tokens \in TokenLists : SearchAND(r, tokens) = SearchAND(tree, tokens)

(***************************************************************************)
(* C10: removeNode(root) fails with RootRemovalForbidden and leaves the    *)
(* tree, its node map and its cross-reference as they were.                *)
(***************************************************************************)
C10_RootRemovalRefused ==
    [][(last'.op = "removeNode" /\ last'.node = tree.root)
       => (last'.error = "RootRemovalForbidden" /\ tree' = tree)]_vars

\* the removal of a root that has children and indexed content was refused
C10_Witness ==
    /\ last.op = "removeNode"
    /\ last.node = tree.root
    /\ last.error = "RootRemovalForbidden"
    /\ ~IsLeaf(tree, tree.root)
    /\ Occurrences(tree) # {}

(***************************************************************************)
(* C11: in a tree made by the constructor, the q1 counter never goes back  *)
(* and no node holds a q1 above it; appendChild(parent) returns a new node *)
(* whose q1 is above the counter, so above the q1 of every node created    *)
(* before it (the removed ones included), whose parent is `parent` and     *)
(* which is the last element of parent.children, the elements before it    *)
(* being the children parent had.                                          *)
(***************************************************************************)
C11_AppendChildLastAndLatest ==
    [][/\ tree'.q1Counter >= tree.q1Counter
       /\ \A m \in DOMAIN tree.nodes : tree.nodes[m].q1 <= tree.q1Counter
       /\ tree.nodes[tree.root].q1 = 0
       /\ last'.op = "appendChild" =>
            LET n == last'.node
                p == last'.result
            IN  /\ n \notin DOMAIN tree.nodes
                /\ tree'.nodes[n].q1 > tree.q1Counter
                /\ \A m \in DOMAIN tree.nodes : tree.nodes[m].q1 < tree'.nodes[n].q1
                /\ tree'.nodes[n].parent = p
                /\ tree'.nodes[p].children = Append(tree.nodes[p].children, n)
                /\ LastChild(tree', p) = n]_vars

\* a node was appended under a node other than the root that had a child,
\* after a removal and an insertion at another position
C11_Witness ==
    /\ last.op = "appendChild"
    /\ last.result # tree.root
    /\ Len(tree.nodes[last.result].children) >= 2
    /\ LastChild(tree, last.result) = last.node
    /\ ~inOrder
    /\ Cardinality(Attached(tree)) < tree.nextId - 1

\* the node a leaf stands under, read from the children lists; a leaf root is itself
LiftOf(t, n) ==
    IF t.nodes[n].children # <<>> THEN n
    ELSE IF \E p \in DOMAIN t.nodes : n \in Range(t.nodes[p].children)
         THEN CHOOSE p \in DOMAIN t.nodes : n \in Range(t.nodes[p].children)
         ELSE n

C13_NCDOfSelfAndOfRoot ==
    /\ \A a \in Attached(tree) : FindNCD(tree, a, a) = a
    /\ \A ns \in NodeLists(tree) :
        tree.root \in Range(ns) => FindNCDMultiple(tree, ns) = tree.root

\* the root stands last in a list whose first two nodes have another dominator,
\* in a tree that is not recomputed
C13_Witness ==
    /\ dirty
    /\ \E a, b \in Attached(tree) :
        /\ a # b
        /\ FindNCD(tree, a, b) # tree.root
        /\ FindNCDMultiple(tree, <<a, b, tree.root>>) = tree.root
        /\ FindNCDMultiple(tree, <<a, tree.root, b>>) = tree.root
        /\ FindNCDMultiple(tree, <<tree.root, a, b>>) = tree.root

(***************************************************************************)
(* C14: after recalculateQ2, contains is a strict partial order over the   *)
(* nodes of the tree: no node contains itself, no two nodes contain each   *)
(* other, and A contains C whenever A contains B and B contains C.         *)
(***************************************************************************)
C14_ContainsStrictOrder ==
    ~dirty =>
        \A a, b, c \in Attached(tree) :
            /\ ~Contains(tree, a, a)
            /\ ~(Contains(tree, a, b) /\ Contains(tree, b, a))
            /\ (Contains(tree, a, b) /\ Contains(tree, b, c)) => Contains(tree, a, c)

\* a recomputed tree with a chain of three nodes and two nodes that do not contain each other
C14_Witness ==
    /\ ~dirty
    /\ \E a, b, c \in Attached(tree) :
        Contains(tree, a, b) /\ Contains(tree, b, c) /\ Contains(tree, a, c)
    /\ \E a, b \in Attached(tree) :
        a # b /\ ~Contains(tree, a, b) /\ ~Contains(tree, b, a)

(* ------------------------------------------------ the integers of the ids *)

IsOdd(n) == n[2] % 2 = 1

\* n / 2 for an even n >= 0
HalfOf(n) == <<n[1] \div 2, ((n[1] % 2) * Base + n[2]) \div 2>>

\* the odd m with n = 2^k * m, for n >= 1
RECURSIVE OddPartOf(_)
OddPartOf(n) == IF IsOdd(n) THEN n ELSE OddPartOf(HalfOf(n))

\* the k with n = 2^k * m, m odd, for n >= 1
RECURSIVE TwoFactors(_)
TwoFactors(n) == IF IsOdd(n) THEN 0 ELSE 1 + TwoFactors(HalfOf(n))

(***************************************************************************)
(* C15: for every positive integer n, getParent(1) is null, getParent(n)   *)
(* is n / 2 for an even n, and the odd part of 3n + 1 for an odd n other   *)
(* than 1 (so it is odd).                                                  *)
(***************************************************************************)
C15_GetParentRule ==
    (last.op = "getParent" /\ ValidatePositiveInteger(last.node)) =>
        /\ last.result.outcome = "returns"
        /\ last.result.value =
            IF last.node = One THEN NoId
            ELSE IF ~IsOdd(last.node) THEN HalfOf(last.node)
            ELSE OddPartOf(Scale(last.node, 3, 1))
        /\ (IsOdd(last.node) /\ last.node # One) => IsOdd(last.result.value)

(***************************************************************************)
(* C16: for every positive integer n that is given, getAncestryChain(n)    *)
(* returns a sequence that starts with n, ends with 1, holds 1 nowhere     *)
(* else, and in which every element after the first is getParent of the    *)
(* element before it.                                                      *)
(***************************************************************************)
C16_ChainReachesOne ==
    (/\ last.op = "getAncestryChain"
     /\ ValidatePositiveInteger(last.node)
     /\ last.result.outcome # "walking") =>
        /\ last.result.outcome = "returns"
        /\ LET chain == last.result.value
           IN  /\ chain[1] = last.node
               /\ chain[Len(chain)] = One
               /\ \A i \in 1..(Len(chain) - 1) :
                    /\ chain[i] # One
                    /\ GetParent(chain[i]).outcome = "returns"
                    /\ chain[i + 1] = GetParent(chain[i]).value

(***************************************************************************)
(* C17: getAncestryChain does not walk without limit: a call on a positive *)
(* integer returns its chain or, when the walk has not reached 1 within    *)
(* the maximum number of steps, fails with AddressingDivergence.           *)
(***************************************************************************)
C17_WalkGuarded ==
    (/\ last.op = "getAncestryChain"
     /\ ValidatePositiveInteger(last.node)
     /\ last.result.outcome # "walking") =>
        \/ last.result.outcome = "returns"
        \/ last.result.outcome = "throws" /\ last.result.error = "AddressingDivergence"

(***************************************************************************)
(* C18: on a positive integer, getOddPart, getPowerOfTwo and getParent     *)
(* return after at most as many loop steps as the value they halve (n, or  *)
(* 3n + 1 for getParent of an odd n) has factors of two, and               *)
(* findAdmissibleAssociates and mintNextChild return or throw after at     *)
(* most as many candidate checks as their search depth.                    *)
(***************************************************************************)
C18_CallsEnd ==
    /\ (last.op \in {"getOddPart", "getPowerOfTwo"} /\ ValidatePositiveInteger(last.node)) =>
        /\ last.result.outcome = "returns"
        /\ last.result.steps <= TwoFactors(last.node)
    /\ (last.op = "getParent" /\ ValidatePositiveInteger(last.node)) =>
        /\ last.result.outcome = "returns"
        /\ last.result.steps <=
            IF IsOdd(last.node) /\ last.node # One
            THEN TwoFactors(Scale(last.node, 3, 1)) ELSE 0
    /\ (last.op = "findAdmissibleAssociates" /\ ValidatePositiveInteger(last.node[1])) =>
        /\ last.result.outcome = "returns"
        /\ last.result.steps <= last.node[2]
    /\ (last.op = "mintNextChild" /\ ValidatePositiveInteger(last.node[1])) =>
        /\ last.result.outcome \in {"returns", "throws"}
        /\ last.result.steps <= MintSearch

(***************************************************************************)
(* C19: for every id the engine accepts, written 2^k * m with m odd,       *)
(* getOddPart returns m and getPowerOfTwo returns k.                       *)
(***************************************************************************)
C19_OddPartAndPower ==
    /\ (last.op = "getOddPart" /\ ValidatePositiveInteger(last.node)) =>
        /\ last.result.outcome = "returns"
        /\ last.result.value = OddPartOf(last.node)
    /\ (last.op = "getPowerOfTwo" /\ ValidatePositiveInteger(last.node)) =>
        /\ last.result.outcome = "returns"
        /\ last.result.value = Wide(TwoFactors(last.node))

(***************************************************************************)
(* C20: every value c that findAdmissibleAssociates(p, bound) returns is a *)
(* positive odd integer with getParent(c) = p, is neither p nor 1, and the *)
(* list is in strictly ascending order.                                    *)
(***************************************************************************)
C20_AssociatesAreChildren ==
    (last.op = "findAdmissibleAssociates" /\ last.result.outcome = "returns") =>
        LET p == last.node[1]
            cs == last.result.value
        IN  /\ \A i \in 1..Len(cs) :
                /\ WideLess(Wide(0), cs[i])
                /\ IsOdd(cs[i])
                /\ GetParent(cs[i]) = Returns(p, GetParent(cs[i]).steps)
                /\ OddPartOf(Scale(cs[i], 3, 1)) = p
                /\ cs[i] # p
                /\ cs[i] # One
            /\ \A i \in 1..(Len(cs) - 1) : WideLess(cs[i], cs[i + 1])

\* four children were returned for one parent, after candidates that failed the tests
C20_Witness ==
    /\ last.op = "findAdmissibleAssociates"
    /\ last.result.outcome = "returns"
    /\ last.node[2] > Len(last.result.value)
    /\ Len(last.result.value) >= 3
    /\ \E k \in 1..last.node[2] :
        /\ Candidate(last.node[1], k).asked
        /\ Candidate(last.node[1], k).candidate \in Range(last.result.value)

(***************************************************************************)
(* C21: mintNextChild(p, used) never returns a value that is in used, and  *)
(* in a sequence of calls on the same parent in which each returned value  *)
(* is added to used before the next call, the returned values are pairwise *)
(* distinct and each has getParent equal to p.                             *)
(***************************************************************************)
C21_MintedAreFresh ==
    (last.op = "mintNextChild" /\ last.result.outcome = "returns") =>
        LET p == last.node[1]
            used == last.node[2]
            minted == Append(last.node[3], last.result.value)
        IN  /\ last.result.value \notin Range(used)
            /\ \A i, j \in 1..Len(minted) : i # j => minted[i] # minted[j]
            /\ \A i \in 1..Len(minted) :
                    GetParent(minted[i]) = Returns(p, GetParent(minted[i]).steps)

\* a third child was minted for a parent whose smallest admissible child was in use
C21_Witness ==
    /\ last.op = "mintNextChild"
    /\ last.result.outcome = "returns"
    /\ Len(last.node[3]) >= 2
    /\ Len(last.node[2]) > Len(last.node[3])
    /\ FindAdmissibleAssociates(last.node[1], MintSearch).value[1] \in Range(last.node[2])

\* the admissible children of p within the search depth of mintNextChild: the
\* candidates of the exponents 1 .. MintSearch that are positive odd integers
\* with 3c + 1 = 2^k * p and p odd, in ascending order
AdmissibleWithin(p) ==
    LET ks == SelectSeq([k \in 1..MintSearch |-> k],
                        LAMBDA k : /\ IsOdd(p)
                                   /\ Mod3(Scale(Pow2Times(k, p), 1, -1)) = 0
                                   /\ Candidate(p, k).candidate # One)
    IN  [i \in 1..Len(ks) |-> Candidate(p, ks[i]).candidate]

(***************************************************************************)
(* C22: mintNextChild(p, used) returns the smallest value of               *)
(* findAdmissibleAssociates(p, searchBound) that is not in used, and fails *)
(* with the no-available-child error exactly when every admissible child   *)
(* within the search bound is in used, which includes a parent with no     *)
(* admissible child at all.                                                *)
(***************************************************************************)
C22_MintSmallestFree ==
    (last.op = "mintNextChild" /\ ValidatePositiveInteger(last.node[1])) =>
        LET p == last.node[1]
            used == last.node[2]
            admissible == FindAdmissibleAssociates(p, MintSearch)
            free == IF admissible.outcome = "returns"
                    THEN SelectSeq(admissible.value, LAMBDA c : c \notin Range(used))
                    ELSE <<>>
        IN  /\ Len(free) > 0 =>
                /\ last.result.outcome = "returns"
                /\ last.result.value = free[1]
                /\ \A i \in 1..Len(free) : ~WideLess(free[i], free[1])
            /\ Len(free) = 0 =>
                /\ last.result.outcome = "throws"
                /\ last.result.error = "NoAvailableChild"
            /\ AdmissibleWithin(p) = <<>> =>
                /\ last.result.outcome = "throws"
                /\ last.result.error = "NoAvailableChild"

(***************************************************************************)
(* C23: for every positive integer n, mintNextVersion(n) is 2n and the     *)
(* minted version has n as its parent: getParent(mintNextVersion(n)) is n  *)
(* and verifyParenthood(n, mintNextVersion(n)) is true.                    *)
(***************************************************************************)
C23_VersionIsDoubleWithParent ==
    (last.op = "mintNextVersion" /\ ValidatePositiveInteger(last.node)) =>
        /\ last.result.outcome = "returns"
        /\ last.result.value = Scale(last.node, 2, 0)
        /\ GetParent(last.result.value) = Returns(last.node, 0)
        /\ VerifyParenthood(last.node, last.result.value) = Returns(TRUE, 0)

(***************************************************************************)
(* C24: getPillar(n, count) returns exactly count elements, its element i  *)
(* (from 0) is getOddPart(n) * 2^i, whether n is the odd base or one of    *)
(* its even versions, and each element after the first has the element     *)
(* before it as parent.                                                    *)
(***************************************************************************)
C24_PillarDoubles ==
    (last.op = "getPillar" /\ ValidatePositiveInteger(last.node[1])) =>
        /\ last.result.outcome = "returns"
        /\ LET pillar == last.result.value
               base == GetOddPart(last.node[1]).value
           IN  /\ Len(pillar) = last.node[2]
               /\ base = OddPartOf(last.node[1])
               /\ \A i \in 1..Len(pillar) : pillar[i] = Pow2Times(i - 1, base)
               /\ \A i \in 2..Len(pillar) :
                    GetParent(pillar[i]) = Returns(pillar[i - 1], 0)

\* n is zero, negative or no integer
NotPositiveInteger(n) == Len(n) # 2 \/ n[1] < 0 \/ n = <<0, 0>>

(***************************************************************************)
(* C25: every public operation of the engine, given a node id that is not  *)
(* a positive integer (zero, negative or no integer), throws the           *)
(* invalid-id error before it computes anything; verifyParenthood and      *)
(* verifyAncestry do so for either argument.                               *)
(***************************************************************************)
C25_InvalidIdRejected ==
    /\ (/\ last.op \in {"getOddPart", "getPowerOfTwo", "isOddNode", "getParent",
                         "getAncestryChain", "mintNextVersion", "getNodeInfo"}
        /\ NotPositiveInteger(last.node)) =>
            last.result = Throws("InvalidNodeId", 0)
    /\ (/\ last.op \in {"getPillar", "findAdmissibleAssociates", "mintNextChild"}
        /\ NotPositiveInteger(last.node[1])) =>
            last.result = Throws("InvalidNodeId", 0)
    /\ (/\ last.op \in {"verifyParenthood", "verifyAncestry"}
        /\ NotPositiveInteger(last.node[1]) \/ NotPositiveInteger(last.node[2])) =>
            last.result = Throws("InvalidNodeId", 0)

\* verifyAncestry was given a positive integer and then a number that is no integer
C25_Witness ==
    /\ last.op = "verifyAncestry"
    /\ ~NotPositiveInteger(last.node[1])
    /\ Len(last.node[2]) = 3
    /\ last.result.outcome = "throws"

\* p is even or a multiple of 3
EvenOrTriple(p) == ~IsOdd(p) \/ Mod3(p) = 0

(***************************************************************************)
(* C30: for every parent id that is even or a multiple of 3,               *)
(* findAdmissibleAssociates returns the empty list for every search bound, *)
(* and mintNextChild on such a parent fails with the no-available-child    *)
(* error whatever the used set is.                                         *)
(***************************************************************************)
C30_NoChildOfEvenOrTriple ==
    /\ (/\ last.op = "findAdmissibleAssociates"
        /\ ValidatePositiveInteger(last.node[1])
        /\ EvenOrTriple(last.node[1])) =>
            /\ last.result.outcome = "returns"
            /\ last.result.value = <<>>
    /\ (/\ last.op = "mintNextChild"
        /\ ValidatePositiveInteger(last.node[1])
        /\ EvenOrTriple(last.node[1])) =>
            /\ last.result.outcome = "throws"
            /\ last.result.error = "NoAvailableChild"

(***************************************************************************)
(* C28: after any sequence of createProperty, createShare and updatePrice  *)
(* on one ledger, the ids issued to properties, shares and price versions  *)
(* are pairwise distinct: no id is issued to two entities.                 *)
(***************************************************************************)
C28_IssuedIdsDistinct ==
    LET ids == Issued(properties)
    IN  \A i, j \in 1..Len(ids) : i # j => ids[i] # ids[j]

(***************************************************************************)
(* C26: the open counter of a tree, restored by deserialize or not, is at  *)
(* least the largest q1 among its nodes, and a node that was just appended *)
(* has a q1 strictly greater than the q1 of every other node of the tree,  *)
(* the restored ones included.                                             *)
(***************************************************************************)
C26_CounterAboveRestored ==
    /\ \A n \in Attached(tree) : tree.nodes[n].q1 <= tree.q1Counter
    /\ last.op = "appendChild" =>
            \A m \in Attached(tree) \ {last.node} :
                tree.nodes[m].q1 < tree.nodes[last.node].q1

(***************************************************************************)
(* C27: removeNode applied to a node that is no longer attached (removed   *)
(* itself, or with the subtree of an ancestor) changes nothing in the      *)
(* attached tree: the attached nodes, their children lists and sibling     *)
(* links, their node-map entries and their cross-reference entries stay.   *)
(***************************************************************************)
C27_DetachedRemovalKeepsTree ==
    [][(last'.op = "removeNode" /\ last'.node \notin Attached(tree)) =>
            /\ Attached(tree') = Attached(tree)
            /\ \A m \in Attached(tree) :
                    /\ tree'.nodes[m].children = tree.nodes[m].children
                    /\ tree'.nodes[m].prevSibling = tree.nodes[m].prevSibling
                    /\ tree'.nodes[m].nextSibling = tree.nodes[m].nextSibling
                    /\ (m \in tree'.nodeMap) = (m \in tree.nodeMap)
                    /\ \A tok \in DOMAIN tree.index :
                            (m \in Range(tree'.index[tok])) = (m \in Range(tree.index[tok]))
            /\ DOMAIN tree'.index = DOMAIN tree.index]_vars

(***************************************************************************)
(* C29: after any sequence of appendChild, addNode (after no sibling or    *)
(* after a current child of the parent) and removeNode on attached nodes,  *)
(* for every attached node with children c1 .. ck in order: c1 has no      *)
(* prevSibling, ck has no nextSibling, each c(i) has c(i+1) as nextSibling *)
(* and each c(i+1) has c(i) as prevSibling; and every attached node other  *)
(* than the root occurs exactly once in the children of its parent.        *)
(***************************************************************************)
C29_SiblingLinksMatchChildren ==
    /\ \A p \in Attached(tree) :
        LET kids == tree.nodes[p].children
        IN  /\ Len(kids) > 0 =>
                /\ tree.nodes[kids[1]].prevSibling = NULL
                /\ tree.nodes[kids[Len(kids)]].nextSibling = NULL
            /\ \A i \in 1..(Len(kids) - 1) :
                /\ tree.nodes[kids[i]].nextSibling = kids[i + 1]
                /\ tree.nodes[kids[i + 1]].prevSibling = kids[i]
    /\ \A n \in Attached(tree) \ {tree.root} :
        LET kids == tree.nodes[tree.nodes[n].parent].children
        IN  /\ tree.nodes[n].parent \in Attached(tree)
            /\ Cardinality({i \in 1..Len(kids) : kids[i] = n}) = 1

\* a removal succeeded in a tree where addNode had put a later node before an
\* earlier one, and the two are still siblings
C29_Witness ==
    /\ last.op = "removeNode"
    /\ last.error = "none"
    /\ \E p \in Attached(tree) :
        LET kids == tree.nodes[p].children
        IN  \E i \in 1..(Len(kids) - 1) : kids[i] > kids[i + 1]

====
